---------------------------- MODULE Spec2Model ----------------------------
(***************************************************************************)
(* DNS Query integration (src/src/integration.ts): doLookup fans a batch   *)
(* of entities out under async.eachLimit, and each entity's query tasks    *)
(* under async.parallelLimit; onMessage calls doLookup for one entity.     *)
(* A step of the model is one turn of the event loop: the call of doLookup *)
(* or onMessage up to its first suspension, or one resolver response       *)
(* together with every continuation (micro-task) it releases.              *)
(***************************************************************************)
EXTENDS Naturals, Integers, Sequences, FiniteSets, TLC

VARIABLES
  previousDns,    \* module-level "let previousDns" (Null until first set)
  servers,        \* the resolver's server list (dns.setServers/getServers)
  entities,       \* the entities argument of the current doLookup call
  options,        \* the options object of the current call (mutable)
  given,          \* the options object as the caller built it (history)
  lookupResults,  \* the lookupResults array of the current call
  each,           \* async.eachLimit's closure: nextElem, running, done
  lookups,        \* per entity: iteratee position, answers, parallelLimit
  outcome,        \* what the caller of doLookup has received
  issued,         \* history: resolver calls made per entity and record type
  setCalls,       \* history: number of dns.setServers calls
  runs,           \* history: per doLookup call, its dns option and whether
                  \* it called dns.setServers
  message,        \* the onMessage call in progress or last finished, if any
  abandoned,      \* the closures of an earlier doLookup call that threw while
                  \* resolver calls of its batch were outstanding, if any
  block,          \* the block component: block.entity, block.data and the
                  \* __show, __searching, __error properties it sets, if any
  sent            \* per record type, the component's RUN_QUERY messages
                  \* whose promise has not settled

vars == <<previousDns, servers, entities, options, given, lookupResults,
          each, lookups, outcome, issued, setCalls, runs, message,
          abandoned, block, sent>>

-----------------------------------------------------------------------------
(* Program constants *)

MAX_TASKS_AT_A_TIME == 5
MAX_ENTITIES_AT_A_TIME == 2

(* Bounds of the model *)

MaxEntities == 3      \* longest batch handed to doLookup
MaxResults == 2       \* most records one resolver response carries
MaxQueries == 6       \* most resolver calls one batch is configured to make
MaxCalls == 3         \* most calls of doLookup one process lifetime makes
MaxAnswered == 4      \* most resolver responses followed in a batch of long lookups
MaxInFlight == 2      \* most RUN_QUERY messages of the component under way at once

Null == <<>>
Some(x) == <<x>>

DomainRecordType == {"A", "AAAA", "CNAME", "MX", "TXT", "NS", "SOA"}
DomainOrder == <<"A", "AAAA", "CNAME", "MX", "TXT", "NS", "SOA">>
RecordTypes == DomainRecordType \cup {"PTR"}

DNS_ERRORS ==
  [c \in {"ENODATA", "EFORMERR", "ESERVFAIL", "ENOTFOUND", "ENOTIMP",
          "EREFUSED", "EBADQUERY", "EBADNAME", "EBADFAMILY", "EBADRESP",
          "ECONNREFUSED", "ETIMEOUT", "EEOF", "EFILE", "ENOMEM",
          "EDESTRUCTION", "EBADSTR", "EBADFLAGS", "ENONAME", "EBADHINTS",
          "ENOTINITIALIZED", "ELOADIPHLPAPI", "EADDRGETNETWORKPARAMS",
          "ECANCELLED"} |->
     CASE c = "ENODATA" -> "DNS server returned an answer with no data."
       [] c = "EFORMERR" -> "DNS server claims query was misformatted."
       [] c = "ESERVFAIL" -> "DNS server returned general failure."
       [] c = "ENOTFOUND" -> "Domain name not found."
       [] c = "ENOTIMP" -> "DNS server does not implement the requested operation."
       [] c = "EREFUSED" -> "DNS server refused query."
       [] c = "EBADQUERY" -> "Misformatted DNS query."
       [] c = "EBADNAME" -> "Misformatted host name."
       [] c = "EBADFAMILY" -> "Unsupported address family."
       [] c = "EBADRESP" -> "Misformatted DNS reply."
       [] c = "ECONNREFUSED" -> "Could not contact DNS servers."
       [] c = "ETIMEOUT" -> "Timeout while contacting DNS servers."
       [] c = "EEOF" -> "End of file."
       [] c = "EFILE" -> "Error reading file."
       [] c = "ENOMEM" -> "Out of memory."
       [] c = "EDESTRUCTION" -> "Channel is being destroyed."
       [] c = "EBADSTR" -> "Misformatted string."
       [] c = "EBADFLAGS" -> "Illegal flags specified."
       [] c = "ENONAME" -> "Given host name is not numeric."
       [] c = "EBADHINTS" -> "Illegal hints flags specified."
       [] c = "ENOTINITIALIZED" -> "c-ares library initialization not yet performed."
       [] c = "ELOADIPHLPAPI" -> "Error loading iphlpapi.dll."
       [] c = "EADDRGETNETWORKPARAMS" -> "Could not find GetNetworkParams function."
       [] c = "ECANCELLED" -> "DNS query cancelled."]

-----------------------------------------------------------------------------
(* Values *)

\* An entity of the batch.  value is its position in the batch, which keeps
\* the entities of one batch distinct.
Entity(v, kind) ==
  [value |-> v,
   isIP |-> kind \in {"privateIP", "publicIP"},
   isPrivateIP |-> kind = "privateIP",
   isDomain |-> kind = "domain"]

EntityKinds == {"domain", "privateIP", "publicIP"}

\* The k-th record of a resolver response for record type t.
Record(t, k) == [rtype |-> t, ix |-> k]

\* A successful resolver response: an array of n records, except that
\* dns.resolve(name, 'SOA') answers with one bare object.
Response(t, n) ==
  IF t = "SOA"
    THEN [isArray |-> FALSE, value |-> Record(t, 1)]
    ELSE [isArray |-> TRUE, value |-> [k \in 1..n |-> Record(t, k)]]

\* The syscall Node's resolver names in the error of each call.
Syscall(t) ==
  CASE t = "A" -> "queryA"
    [] t = "AAAA" -> "queryAaaa"
    [] t = "CNAME" -> "queryCname"
    [] t = "MX" -> "queryMx"
    [] t = "TXT" -> "queryTxt"
    [] t = "NS" -> "queryNs"
    [] t = "SOA" -> "querySoa"
    [] t = "PTR" -> "getHostByAddr"

\* The error a resolver call rejects with.  code "" is an error without code.
RawError(code, syscall) ==
  [code |-> code, syscall |-> syscall,
   message |-> "raw " \o code, detail |-> ""]

BlankResult(searched) ==
  [results |-> <<>>, error |-> Null, searched |-> searched, elapsedTime |-> Null]

\* Faulty variant of getBlankAnswer: PTR starts unsearched like the domain types.
getBlankAnswerUnsearched(entity) ==
  IF entity.isIP
    THEN [rec |-> [t \in {"PTR"} |-> BlankResult(FALSE)],
          __order |-> <<"PTR">>]
    ELSE [rec |-> [t \in DomainRecordType |-> BlankResult(FALSE)],
          __order |-> DomainOrder]

\* Faulty variant of getBlankAnswer: __order lacks the last domain type.
getBlankAnswerShortOrder(entity) ==
  IF entity.isIP
    THEN [rec |-> [t \in {"PTR"} |-> BlankResult(TRUE)],
          __order |-> <<"PTR">>]
    ELSE [rec |-> [t \in DomainRecordType |-> BlankResult(FALSE)],
          __order |-> SubSeq(DomainOrder, 1, Len(DomainOrder) - 1)]

getBlankAnswer(entity) ==
  IF entity.isIP
    THEN [rec |-> [t \in {"PTR"} |-> BlankResult(TRUE)],
          __order |-> <<"PTR">>]
    ELSE [rec |-> [t \in DomainRecordType |-> BlankResult(FALSE)],
          __order |-> DomainOrder]

\* Faulty variant of enrichDnsError: the error keeps the resolver's message.
enrichDnsErrorUnchanged(dnsError) == dnsError

\* Faulty variant of enrichDnsError: the code is looked up verbatim only.
enrichDnsErrorVerbatimOnly(dnsError) ==
  IF dnsError.code # "" /\ dnsError.code \in DOMAIN DNS_ERRORS
    THEN [dnsError EXCEPT !.message = DNS_ERRORS[dnsError.code],
                          !.detail = DNS_ERRORS[dnsError.code]]
    ELSE dnsError

enrichDnsError(dnsError) ==
  LET code == dnsError.code
      errorCodeWithE == "E" \o code
      found == code # "" /\ (code \in DOMAIN DNS_ERRORS
                             \/ errorCodeWithE \in DOMAIN DNS_ERRORS)
      errorMessage == IF code \in DOMAIN DNS_ERRORS
                        THEN DNS_ERRORS[code]
                        ELSE DNS_ERRORS[errorCodeWithE]
  IN IF found
       THEN [dnsError EXCEPT !.message = errorMessage, !.detail = errorMessage]
       ELSE dnsError

\* Faulty variant of isThrowableError: EBADRESP is not on the recoverable list.
isThrowableErrorNoBadResp(dnsError) ==
  IF dnsError = Null \/ dnsError[1].code = ""
    THEN FALSE
    ELSE dnsError[1].code \notin {"ENODATA", "ENOTFOUND"}

isThrowableError(dnsError) ==
  IF dnsError = Null \/ dnsError[1].code = ""
    THEN FALSE
    ELSE dnsError[1].code \notin {"ENODATA", "ENOTFOUND", "EBADRESP"}

\* Faulty variant of isMiss: resultsToShow is not consulted.
isMissWithoutAnswers(totalAnswers, opts) == totalAnswers = 0

isMiss(totalAnswers, opts) ==
  CASE opts.resultsToShow = "always" -> FALSE
    [] opts.resultsToShow = "answerOnly" -> totalAnswers = 0


\* Faulty variant of Compare: equal result counts are not told apart by searched.
CompareByLengthOnly(answers, a, b) ==
  Len(answers.rec[b].results) - Len(answers.rec[a].results)

\* The comparator of sortAnswers: negative when a sorts before b.
Compare(answers, a, b) ==
  LET answerA == answers.rec[a]
      answerB == answers.rec[b]
      resultLengthDiff == Len(answerB.results) - Len(answerA.results)
      Number(bool) == IF bool THEN 1 ELSE 0
  IN IF resultLengthDiff = 0
       THEN Number(answerB.searched) - Number(answerA.searched)
       ELSE resultLengthDiff

\* Array.prototype.sort is stable: x goes after every element that does not
\* sort strictly after it.
RECURSIVE InsertSorted(_, _, _)
InsertSorted(answers, sorted, x) ==
  IF sorted = <<>> THEN <<x>>
  ELSE IF Compare(answers, Head(sorted), x) <= 0
         THEN <<Head(sorted)>> \o InsertSorted(answers, Tail(sorted), x)
         ELSE <<x>> \o sorted

RECURSIVE StableSort(_, _, _)
StableSort(answers, todo, sorted) ==
  IF todo = <<>> THEN sorted
  ELSE StableSort(answers, Tail(todo), InsertSorted(answers, sorted, Head(todo)))

sortAnswers(answers) ==
  [answers EXCEPT !.__order = StableSort(answers, answers.__order, <<>>)]

\* Faulty variant of isDomainNotFound: the syscall is not consulted.
isDomainNotFoundAnySyscall(answers) ==
  \E type \in DOMAIN answers.rec :
    LET record == answers.rec[type]
    IN /\ record.error # Null
       /\ record.error[1].message = "Domain name not found."

isDomainNotFound(answers) ==
  \E type \in DOMAIN answers.rec :
    LET record == answers.rec[type]
    IN /\ record.error # Null
       /\ record.error[1].message = "Domain name not found."
       /\ record.error[1].syscall # "getHostByAddr"

isReverseDnsNotFound(answers) ==
  \E type \in DOMAIN answers.rec :
    LET record == answers.rec[type]
    IN /\ record.error # Null
       /\ record.error[1].code = "ENOTFOUND"
       /\ record.error[1].syscall = "getHostByAddr"

\* The text a template literal makes of a field of a record, or of the record.
Field(value, name) == name \o ":" \o value.rtype \o ToString(value.ix)
Text(value) == value.rtype \o ToString(value.ix)

MoreAnswers(tags, totalAnswers) ==
  IF totalAnswers > 1
    THEN tags \o <<"+" \o ToString(totalAnswers - 1) \o " answers">>
    ELSE tags

\* Faulty variant of getSummaryTags: the A record is not preferred.
getSummaryTagsNoPreference(answers, domainNotFound, reverseDnsNotFound, totalAnswers) ==
  IF domainNotFound THEN <<"Domain not found">>
  ELSE IF reverseDnsNotFound THEN <<"IP not found">>
  ELSE IF totalAnswers > 0
    THEN LET type == answers.__order[1]
             value == answers.rec[type].results[1]
             tags == CASE type = "MX" -> <<"MX " \o Field(value, "exchange")>>
                       [] type = "SOA" -> <<"SOA " \o Field(value, "nsname")>>
                       [] type \in {"A", "AAAA"} -> <<type \o " " \o Field(value, "address")>>
                       [] OTHER -> <<type \o " " \o Text(value)>>
         IN MoreAnswers(tags, totalAnswers)
  ELSE <<"No Answers">>

\* Faulty variant of getSummaryTags: the two not-found tags are exchanged.
getSummaryTagsSwapped(answers, domainNotFound, reverseDnsNotFound, totalAnswers) ==
  IF domainNotFound THEN <<"IP not found">>
  ELSE IF reverseDnsNotFound THEN <<"Domain not found">>
  ELSE IF "A" \in DOMAIN answers.rec /\ Len(answers.rec["A"].results) > 0
    THEN MoreAnswers(<<"A " \o Field(answers.rec["A"].results[1], "address")>>,
                     totalAnswers)
  ELSE IF totalAnswers > 0
    THEN LET type == answers.__order[1]
             recordData == answers.rec[type]
         IN IF Len(recordData.results) = 0
              \* results[0] is undefined: the literal prints "undefined", and
              \* reading a field of it throws
              THEN IF type \in {"MX", "SOA", "AAAA"}
                     THEN <<"TypeError">>
                     ELSE MoreAnswers(<<type \o " undefined">>, totalAnswers)
              ELSE LET value == recordData.results[1]
                       tags == CASE type = "MX" -> <<"MX " \o Field(value, "exchange")>>
                                 [] type = "SOA" -> <<"SOA " \o Field(value, "nsname")>>
                                 [] type = "AAAA" -> <<"AAAA " \o Field(value, "address")>>
                                 [] OTHER -> <<type \o " " \o Text(value)>>
                   IN MoreAnswers(tags, totalAnswers)
  ELSE <<"No Answers">>

getSummaryTags(answers, domainNotFound, reverseDnsNotFound, totalAnswers) ==
  IF domainNotFound THEN <<"Domain not found">>
  ELSE IF reverseDnsNotFound THEN <<"IP not found">>
  ELSE IF "A" \in DOMAIN answers.rec /\ Len(answers.rec["A"].results) > 0
    THEN MoreAnswers(<<"A " \o Field(answers.rec["A"].results[1], "address")>>,
                     totalAnswers)
  ELSE IF totalAnswers > 0
    THEN LET type == answers.__order[1]
             recordData == answers.rec[type]
         IN IF Len(recordData.results) = 0
              \* results[0] is undefined: the literal prints "undefined", and
              \* reading a field of it throws
              THEN IF type \in {"MX", "SOA", "AAAA"}
                     THEN <<"TypeError">>
                     ELSE MoreAnswers(<<type \o " undefined">>, totalAnswers)
              ELSE LET value == recordData.results[1]
                       tags == CASE type = "MX" -> <<"MX " \o Field(value, "exchange")>>
                                 [] type = "SOA" -> <<"SOA " \o Field(value, "nsname")>>
                                 [] type = "AAAA" -> <<"AAAA " \o Field(value, "address")>>
                                 [] OTHER -> <<type \o " " \o Text(value)>>
                   IN MoreAnswers(tags, totalAnswers)
  ELSE <<"No Answers">>

\* Faulty variant of LookupResult: each flag is given the other flag's value.
LookupResultFlagsSwapped(entity, answers, totalAnswers, opts, server) ==
  IF isMiss(totalAnswers, opts)
    THEN [entity |-> entity, data |-> [summary |-> <<>>, details |-> Null]]
    ELSE LET domainNotFound == isDomainNotFound(answers)
             reverseDnsNotFound == isReverseDnsNotFound(answers)
         IN [entity |-> entity,
             data |-> [summary |-> getSummaryTags(answers, domainNotFound,
                                                  reverseDnsNotFound, totalAnswers),
                       details |-> Some([answer |-> answers,
                                         totalAnswers |-> totalAnswers,
                                         server |-> server,
                                         domainNotFound |-> entity.isIP /\ reverseDnsNotFound,
                                         reverseDnsNotFound |-> entity.isDomain /\ domainNotFound])]]

\* The element doLookup pushes on lookupResults for one entity.
LookupResult(entity, answers, totalAnswers, opts, server) ==
  IF isMiss(totalAnswers, opts)
    THEN [entity |-> entity, data |-> [summary |-> <<>>, details |-> Null]]
    ELSE LET domainNotFound == isDomainNotFound(answers)
             reverseDnsNotFound == isReverseDnsNotFound(answers)
         IN [entity |-> entity,
             data |-> [summary |-> getSummaryTags(answers, domainNotFound,
                                                  reverseDnsNotFound, totalAnswers),
                       details |-> Some([answer |-> answers,
                                         totalAnswers |-> totalAnswers,
                                         server |-> server,
                                         domainNotFound |-> entity.isDomain /\ domainNotFound,
                                         reverseDnsNotFound |-> entity.isIP /\ reverseDnsNotFound])]]

-----------------------------------------------------------------------------
(* The two task groups.  The operators below thread a record w through the    *)
(* statements one turn of the event loop executes:                            *)
(*   entities, options, servers, lookupResults, each, lookups, outcome,       *)
(*   issued as the variables of the same names, and                           *)
(*   micro: the continuations of already settled promises, in queue order.    *)

\* The iteratee's state for an entity eachLimit has not reached yet.
NotStarted ==
  [phase |-> "waiting", answers |-> Null, totalAnswers |-> 0,
   tasks |-> <<>>, state |-> <<>>, next |-> 1, running |-> 0, done |-> FALSE]

\* Faulty variant of TasksOf: a domain is queried for every record type.
TasksOfEveryType(entity, opts) ==
  IF entity.isIP THEN <<"PTR">> ELSE DomainOrder

\* The task list the iteratee builds: one reverse lookup for an IP, one
\* forward query per configured type for a domain.
TasksOf(entity, opts) ==
  IF entity.isIP THEN <<"PTR">> ELSE opts.queryTypes

\* Faulty variant of DefaultQueryTypes: an empty type list is left empty.
DefaultQueryTypesNone(entity, opts) == opts

\* "Default to A record lookup if no query types specified": the push is on
\* the options object itself.
DefaultQueryTypes(entity, opts) ==
  IF ~entity.isIP /\ Len(opts.queryTypes) = 0
    THEN [opts EXCEPT !.queryTypes = Append(@, "A")]
    ELSE opts

\* Faulty variant of IgnoreEntity: the isPrivateIP test is missing.
IgnoreEntityAnyIP(entity, opts) == opts.privateIpOnly /\ entity.isIP

IgnoreEntity(entity, opts) ==
  opts.privateIpOnly /\ entity.isIP /\ ~entity.isPrivateIP

\* Faulty variant of ParallelReplenish: the limit test is off by one.
RECURSIVE ParallelReplenishOffByOne(_, _)
ParallelReplenishOffByOne(w, i) ==
  LET L == w.lookups[i]
  IN IF L.running <= MAX_TASKS_AT_A_TIME /\ ~L.done
       THEN IF L.next > Len(L.tasks)
              THEN LET w1 == [w EXCEPT !.lookups[i].done = TRUE]
                   IN IF L.running <= 0
                        THEN [w1 EXCEPT !.micro = Append(@, [i |-> i, kind |-> "tasksDone"])]
                        ELSE w1
              ELSE LET type == L.tasks[L.next]
                   IN ParallelReplenishOffByOne(
                        [w EXCEPT !.lookups[i].running = @ + 1,
                                  !.lookups[i].state[L.next] = "running",
                                  !.lookups[i].next = @ + 1,
                                  !.issued[i][type] = @ + 1], i)
       ELSE w

\* async.parallelLimit's replenish loop for entity i: start waiting tasks, in
\* list order, while fewer than the limit run.  Starting a task calls the
\* resolver.
RECURSIVE ParallelReplenish(_, _)
ParallelReplenish(w, i) ==
  LET L == w.lookups[i]
  IN IF L.running < MAX_TASKS_AT_A_TIME /\ ~L.done
       THEN IF L.next > Len(L.tasks)
              THEN LET w1 == [w EXCEPT !.lookups[i].done = TRUE]
                   IN IF L.running <= 0
                        THEN [w1 EXCEPT !.micro = Append(@, [i |-> i, kind |-> "tasksDone"])]
                        ELSE w1
              ELSE LET type == L.tasks[L.next]
                   IN ParallelReplenish(
                        [w EXCEPT !.lookups[i].running = @ + 1,
                                  !.lookups[i].state[L.next] = "running",
                                  !.lookups[i].next = @ + 1,
                                  !.issued[i][type] = @ + 1], i)
       ELSE w

\* The body of the eachLimit iteratee for entity i, up to its await.
StartEntity(w, i) ==
  LET entity == w.entities[i]
  IN IF IgnoreEntity(entity, w.options)
       THEN [w EXCEPT !.lookups[i].phase = "ignored",
                      !.micro = Append(@, [i |-> i, kind |-> "returned"])]
       ELSE LET opts == DefaultQueryTypes(entity, w.options)
                tasks == TasksOf(entity, opts)
                w1 == [w EXCEPT !.options = opts,
                                !.lookups[i] =
                                  [phase |-> "inflight",
                                   answers |-> getBlankAnswer(entity),
                                   totalAnswers |-> 0,
                                   tasks |-> tasks,
                                   state |-> [k \in 1..Len(tasks) |-> "waiting"],
                                   next |-> 1, running |-> 0, done |-> FALSE]]
            IN ParallelReplenish(w1, i)

\* Faulty variant of FinishEntity: the result goes to the front of lookupResults.
FinishEntityUnshift(w, i) ==
  LET L == w.lookups[i]
      answers == sortAnswers(L.answers)
  IN [w EXCEPT !.lookups[i].answers = answers,
               !.lookups[i].phase = "returned",
               !.lookupResults =
                  <<LookupResult(w.entities[i], answers, L.totalAnswers,
                                 w.options, w.servers)>> \o @,
               !.micro = Append(@, [i |-> i, kind |-> "returned"])]

\* The rest of the iteratee once parallelLimit resolved: sort, push.
FinishEntity(w, i) ==
  LET L == w.lookups[i]
      answers == sortAnswers(L.answers)
  IN [w EXCEPT !.lookups[i].answers = answers,
               !.lookups[i].phase = "returned",
               !.lookupResults =
                  Append(@, LookupResult(w.entities[i], answers, L.totalAnswers,
                                         w.options, w.servers)),
               !.micro = Append(@, [i |-> i, kind |-> "returned"])]

\* Faulty variant of Settle: the catch block rethrows lookupError as it caught it.
SettleRethrows(w, err) ==
  IF w.outcome.kind # "pending" THEN w
  ELSE IF err # Null
    THEN [w EXCEPT !.outcome = [kind |-> "failed", results |-> <<>>,
                                error |-> err]]
    ELSE [w EXCEPT !.outcome = [kind |-> "returned", results |-> w.lookupResults,
                                error |-> Null]]

\* eachLimit's final callback (wrapped in once): doLookup returns
\* lookupResults, or throws the enriched error.
Settle(w, err) ==
  IF w.outcome.kind # "pending" THEN w
  ELSE IF err # Null
    THEN [w EXCEPT !.outcome = [kind |-> "failed", results |-> <<>>,
                                error |-> Some(enrichDnsError(err[1]))]]
    ELSE [w EXCEPT !.outcome = [kind |-> "returned", results |-> w.lookupResults,
                                error |-> Null]]

\* Faulty variant of Replenish: the limit test is off by one.
RECURSIVE ReplenishOffByOne(_)
ReplenishOffByOne(w) ==
  IF w.each.running <= MAX_ENTITIES_AT_A_TIME /\ ~w.each.done
    THEN IF w.each.next > Len(w.entities)
           THEN LET w1 == [w EXCEPT !.each.done = TRUE]
                IN IF w.each.running <= 0 THEN Settle(w1, Null) ELSE w1
           ELSE ReplenishOffByOne(StartEntity([w EXCEPT !.each.running = @ + 1,
                                                        !.each.next = @ + 1],
                                              w.each.next))
    ELSE w

\* eachLimit's replenish loop: start entities, in input order, while fewer
\* than the limit run.
RECURSIVE Replenish(_)
Replenish(w) ==
  IF w.each.running < MAX_ENTITIES_AT_A_TIME /\ ~w.each.done
    THEN IF w.each.next > Len(w.entities)
           THEN LET w1 == [w EXCEPT !.each.done = TRUE]
                IN IF w.each.running <= 0 THEN Settle(w1, Null) ELSE w1
           ELSE Replenish(StartEntity([w EXCEPT !.each.running = @ + 1,
                                                !.each.next = @ + 1],
                                      w.each.next))
    ELSE w

\* Faulty variant of IterateeCallback: an entity's error does not end the batch.
IterateeCallbackContinues(w, err) ==
  LET w1 == [w EXCEPT !.each.running = @ - 1]
  IN IF w1.each.done /\ w1.each.running <= 0
       THEN Settle(w1, Null)
       ELSE Replenish(w1)

\* eachLimit's iterateeCallback, called when an iteratee's promise settled.
IterateeCallback(w, err) ==
  LET w1 == [w EXCEPT !.each.running = @ - 1]
  IN IF err # Null
       THEN Settle([w1 EXCEPT !.each.done = TRUE], err)
     ELSE IF w1.each.done /\ w1.each.running <= 0
       THEN Settle(w1, Null)
     ELSE Replenish(w1)

\* Run the queued continuations until none is left.
RECURSIVE Drain(_)
Drain(w) ==
  IF w.micro = <<>> THEN w
  ELSE LET m == Head(w.micro)
           w1 == [w EXCEPT !.micro = Tail(@)]
       IN CASE m.kind = "returned" -> Drain(IterateeCallback(w1, Null))
            [] m.kind = "threw" -> Drain(IterateeCallback(w1, Some(m.err)))
            [] m.kind = "tasksDone" ->
                 Drain(IF w1.lookups[m.i].phase = "inflight"
                         THEN FinishEntity(w1, m.i) ELSE w1)

\* Faulty variant of TaskCallback: the final callback does not wait for the
\* tasks still running.
TaskCallbackFinishesEarly(w, i, k, err) ==
  LET w1 == [w EXCEPT !.lookups[i].running = @ - 1,
                      !.lookups[i].state[k] =
                         IF err # Null THEN "rejected" ELSE "fulfilled"]
      L == w1.lookups[i]
  IN IF err # Null
       THEN IF L.phase = "inflight"
              THEN [w1 EXCEPT !.lookups[i].done = TRUE,
                              !.lookups[i].phase = "threw",
                              !.micro = Append(@, [i |-> i, kind |-> "threw",
                                                   err |-> err[1]])]
              ELSE [w1 EXCEPT !.lookups[i].done = TRUE]
     ELSE IF L.done
       THEN IF L.phase = "inflight" THEN FinishEntity(w1, i) ELSE w1
     ELSE ParallelReplenish(w1, i)

\* parallelLimit's iterateeCallback for task k of entity i; err is what the
\* task threw.  Its final callback is wrapped in once: it acts only while
\* the iteratee still awaits it.
TaskCallback(w, i, k, err) ==
  LET w1 == [w EXCEPT !.lookups[i].running = @ - 1,
                      !.lookups[i].state[k] =
                         IF err # Null THEN "rejected" ELSE "fulfilled"]
      L == w1.lookups[i]
  IN IF err # Null
       THEN IF L.phase = "inflight"
              THEN [w1 EXCEPT !.lookups[i].done = TRUE,
                              !.lookups[i].phase = "threw",
                              !.micro = Append(@, [i |-> i, kind |-> "threw",
                                                   err |-> err[1]])]
              ELSE [w1 EXCEPT !.lookups[i].done = TRUE]
     ELSE IF L.done /\ L.running <= 0
       THEN IF L.phase = "inflight" THEN FinishEntity(w1, i) ELSE w1
     ELSE ParallelReplenish(w1, i)

-----------------------------------------------------------------------------
(* The query tasks: what runs when the resolver answers. *)

Elapsed == Some("endTime - startTime")

\* Faulty variant of ForwardResolved: a response counts as one answer.
ForwardResolvedCountsOne(w, i, k, results) ==
  LET type == w.lookups[i].tasks[k]
      list == IF results.isArray THEN results.value ELSE <<results.value>>
      w1 == [w EXCEPT !.lookups[i].answers.rec[type].results = list,
                      !.lookups[i].answers.rec[type].elapsedTime = Elapsed,
                      !.lookups[i].totalAnswers = @ + 1,
                      !.lookups[i].answers.rec[type].searched = TRUE]
  IN TaskCallback(w1, i, k, Null)

\* Faulty variant of ForwardResolved: the type that answered moves to the front
\* of __order.
ForwardResolvedMovesToFront(w, i, k, results) ==
  LET type == w.lookups[i].tasks[k]
      list == IF results.isArray THEN results.value ELSE <<results.value>>
      w1 == [w EXCEPT !.lookups[i].answers.rec[type].results = list,
                      !.lookups[i].answers.rec[type].elapsedTime = Elapsed,
                      !.lookups[i].totalAnswers = @ + Len(list),
                      !.lookups[i].answers.rec[type].searched = TRUE,
                      !.lookups[i].answers.__order =
                         <<type>> \o SelectSeq(@, LAMBDA t : t # type)]
  IN TaskCallback(w1, i, k, Null)

\* try-branch of a forward query task, with its finally.
ForwardResolved(w, i, k, results) ==
  LET type == w.lookups[i].tasks[k]
      list == IF results.isArray THEN results.value ELSE <<results.value>>
      w1 == [w EXCEPT !.lookups[i].answers.rec[type].results = list,
                      !.lookups[i].answers.rec[type].elapsedTime = Elapsed,
                      !.lookups[i].totalAnswers = @ + Len(list),
                      !.lookups[i].answers.rec[type].searched = TRUE]
  IN TaskCallback(w1, i, k, Null)

\* Faulty variant of ForwardRejected: every error is thrown again.
ForwardRejectedRethrows(w, i, k, queryErr) ==
  LET type == w.lookups[i].tasks[k]
      error == Some(enrichDnsError(queryErr))
      w1 == [w EXCEPT !.lookups[i].answers.rec[type].elapsedTime = Elapsed,
                      !.lookups[i].answers.rec[type].error = error,
                      !.lookups[i].answers.rec[type].searched = TRUE]
  IN TaskCallback(w1, i, k, Some(queryErr))

\* Faulty variant of ForwardRejected: searched is set on success only.
ForwardRejectedUnsearched(w, i, k, queryErr) ==
  LET type == w.lookups[i].tasks[k]
      error == Some(enrichDnsError(queryErr))
      w1 == [w EXCEPT !.lookups[i].answers.rec[type].elapsedTime = Elapsed,
                      !.lookups[i].answers.rec[type].error = error]
  IN TaskCallback(w1, i, k, IF isThrowableError(error) THEN Some(queryErr) ELSE Null)

\* catch-branch of a forward query task, with its finally.
ForwardRejected(w, i, k, queryErr) ==
  LET type == w.lookups[i].tasks[k]
      error == Some(enrichDnsError(queryErr))
      w1 == [w EXCEPT !.lookups[i].answers.rec[type].elapsedTime = Elapsed,
                      !.lookups[i].answers.rec[type].error = error,
                      !.lookups[i].answers.rec[type].searched = TRUE]
  IN TaskCallback(w1, i, k, IF isThrowableError(error) THEN Some(queryErr) ELSE Null)

\* try-branch of the reverse lookup task.
ReverseResolved(w, i, k, hostnames) ==
  LET w1 == [w EXCEPT !.lookups[i].answers.rec["PTR"].results = hostnames,
                      !.lookups[i].answers.rec["PTR"].elapsedTime = Elapsed,
                      !.lookups[i].totalAnswers = @ + Len(hostnames)]
  IN TaskCallback(w1, i, k, Null)

\* Faulty variant of ReverseRejected: every error is thrown again.
ReverseRejectedRethrows(w, i, k, queryErr) ==
  LET error == Some(enrichDnsError(queryErr))
      w1 == [w EXCEPT !.lookups[i].answers.rec["PTR"].elapsedTime = Elapsed,
                      !.lookups[i].answers.rec["PTR"].error = error]
  IN TaskCallback(w1, i, k, Some(queryErr))

\* catch-branch of the reverse lookup task.
ReverseRejected(w, i, k, queryErr) ==
  LET error == Some(enrichDnsError(queryErr))
      w1 == [w EXCEPT !.lookups[i].answers.rec["PTR"].elapsedTime = Elapsed,
                      !.lookups[i].answers.rec["PTR"].error = error]
  IN TaskCallback(w1, i, k, IF isThrowableError(error) THEN Some(queryErr) ELSE Null)

-----------------------------------------------------------------------------
(* onMessage: the two actions the details block sends. *)

\* What the caller of onMessage has received so far.
Pending == [kind |-> "pending", value |-> Null, error |-> Null]

\* Reading .data of queryResults[0] when doLookup returned an empty array.
TypeError ==
  [code |-> "", syscall |-> "",
   message |-> "Cannot read properties of undefined (reading 'data')",
   detail |-> ""]

\* Faulty variant of onMessageOptions: RUN_QUERY passes the options on as they are.
onMessageOptionsUnchanged(payload, opts) == opts

\* The options onMessage hands to doLookup: RUN_QUERY spreads the options
\* into singleTypeOptions with queryTypes replaced by the payload's type.
onMessageOptions(payload, opts) ==
  IF payload.action = "RUN_QUERY"
    THEN [opts EXCEPT !.queryTypes = <<payload.type>>]
    ELSE opts

\* What onMessage does with the array doLookup resolved with.  RETRY_LOOKUP
\* breaks out of the switch and the function ends without a return value
\* (value Null is JavaScript's undefined); RUN_QUERY returns
\* { answer: queryResults[0].data?.details?.answer[payload.type] || null }.
onMessageReturn(payload, queryResults) ==
  IF payload.action = "RETRY_LOOKUP"
    THEN [kind |-> "returned", value |-> Null, error |-> Null]
  ELSE IF queryResults = <<>>
    THEN [kind |-> "failed", value |-> Null, error |-> Some(TypeError)]
  ELSE LET details == queryResults[1].data.details
           answer == IF details = Null THEN Null
                     ELSE IF payload.type \in DOMAIN details[1].answer.rec
                       THEN Some(details[1].answer.rec[payload.type])
                       ELSE Null
       IN [kind |-> "returned", value |-> Some([answer |-> answer]), error |-> Null]

\* The continuation of onMessage's await, run in the turn in which doLookup
\* settled: the catch blocks throw the error again.
onMessageResumed(msg, out) ==
  IF msg = Null THEN msg
  ELSE IF msg[1].reply.kind # "pending" \/ out.kind = "pending" THEN msg
  ELSE Some([msg[1] EXCEPT !.reply =
               IF out.kind = "failed"
                 THEN [kind |-> "failed", value |-> Null, error |-> out.error]
                 ELSE onMessageReturn(msg[1].payload, out.results)])

-----------------------------------------------------------------------------
(* State machine *)

World ==
  [entities |-> entities, options |-> options, servers |-> servers,
   lookupResults |-> lookupResults, each |-> each, lookups |-> lookups,
   outcome |-> outcome, issued |-> issued, micro |-> <<>>,
   message |-> message]

Commit(w) ==
  /\ entities' = w.entities
  /\ options' = w.options
  /\ lookupResults' = w.lookupResults
  /\ each' = w.each
  /\ lookups' = w.lookups
  /\ outcome' = w.outcome
  /\ issued' = w.issued
  /\ message' = onMessageResumed(w.message, w.outcome)

DefaultServer == "host default"

Init ==
  /\ previousDns = Null
  /\ servers = <<DefaultServer>>
  /\ entities = <<>>
  /\ options = [dns |-> "", privateIpOnly |-> FALSE, queryTypes |-> <<>>,
                resultsToShow |-> "always"]
  /\ given = options
  /\ lookupResults = <<>>
  /\ each = [next |-> 1, running |-> 0, done |-> TRUE]
  /\ lookups = <<>>
  /\ outcome = [kind |-> "none", results |-> <<>>, error |-> Null]
  /\ issued = <<>>
  /\ setCalls = 0
  /\ runs = <<>>
  /\ message = Null
  /\ abandoned = Null
  /\ block = Null
  /\ sent = [t \in DomainRecordType |-> 0]

\* A resolver call of entity i is outstanding.
Outstanding(i) == \E k \in DOMAIN lookups[i].state : lookups[i].state[k] = "running"

\* No call of doLookup is pending and no resolver call is outstanding.
Quiescent ==
  /\ outcome.kind # "pending"
  /\ \A i \in DOMAIN lookups : ~Outstanding(i)

\* No call of doLookup is pending: the caller awaits each call before it
\* makes the next.  The resolver calls a call left outstanding when it threw
\* are not awaited by anyone; the model follows those of one earlier call.
Idle ==
  /\ outcome.kind # "pending"
  /\ abandoned = Null

\* Faulty variant of MustSetServers: previousDns is not consulted.
MustSetServersNonEmpty(opts) == opts.dns # ""

\* "if (options.dns.length > 0 && previousDns !== options.dns)"
MustSetServers(opts) == opts.dns # "" /\ previousDns # Some(opts.dns)

\* The closures of a call of doLookup as it reaches eachLimit, the resolver
\* having the servers list.
Entered(ents, opts, list, caller) ==
  [entities |-> ents, options |-> opts, servers |-> list,
   lookupResults |-> <<>>,
   each |-> [next |-> 1, running |-> 0, done |-> FALSE],
   lookups |-> [i \in 1..Len(ents) |-> NotStarted],
   outcome |-> [kind |-> "pending", results |-> <<>>, error |-> Null],
   issued |-> [i \in 1..Len(ents) |-> [t \in RecordTypes |-> 0]],
   micro |-> <<>>, message |-> caller]

\* A call of doLookup(entities, options), up to its await.  caller is the
\* onMessage call that makes it, Null when the server calls doLookup itself.
Call(ents, opts, caller) ==
  /\ Idle
  /\ abandoned' = IF Quiescent THEN Null ELSE Some([World EXCEPT !.message = Null])
  /\ given' = opts
  /\ runs' = Append(runs, [dns |-> opts.dns, set |-> MustSetServers(opts)])
  /\ IF MustSetServers(opts)
       THEN /\ servers' = <<opts.dns>>
            /\ previousDns' = Some(opts.dns)
            /\ setCalls' = setCalls + 1
       ELSE UNCHANGED <<servers, previousDns, setCalls>>
  /\ \E w \in {Drain(Replenish(Entered(ents, opts, servers', caller)))} : Commit(w)
  /\ UNCHANGED <<block, sent>>

\* doLookup(entities, options), called by the server with a batch.
DoLookup(ents, opts) == Call(ents, opts, Null)

\* onMessage(payload, options), up to its await: both actions call doLookup
\* with the payload's entity alone.
OnMessage(payload, opts) ==
  Call(<<payload.entity>>, onMessageOptions(payload, opts),
       Some([payload |-> payload, options |-> opts, reply |-> Pending]))

Running(i, k) ==
  /\ i \in DOMAIN lookups
  /\ k \in DOMAIN lookups[i].state
  /\ lookups[i].state[k] = "running"

\* resolve4 / resolve6 / resolve answers task k of domain entity i.
QueryResolves(i, k, n) ==
  /\ Running(i, k)
  /\ lookups[i].tasks[k] # "PTR"
  /\ \E w \in {Drain(ForwardResolved(World, i, k, Response(lookups[i].tasks[k], n)))} : Commit(w)
  /\ UNCHANGED <<previousDns, servers, given, setCalls, runs, abandoned,
                 block, sent>>

\* resolve4 / resolve6 / resolve rejects task k of domain entity i.
QueryRejects(i, k, code) ==
  /\ Running(i, k)
  /\ lookups[i].tasks[k] # "PTR"
  /\ \E w \in {Drain(ForwardRejected(World, i, k,
                                  RawError(code, Syscall(lookups[i].tasks[k]))))} : Commit(w)
  /\ UNCHANGED <<previousDns, servers, given, setCalls, runs, abandoned,
                 block, sent>>

\* reverse answers the task of IP entity i.
ReverseResolves(i, k, n) ==
  /\ Running(i, k)
  /\ lookups[i].tasks[k] = "PTR"
  /\ \E w \in {Drain(ReverseResolved(World, i, k, Response("PTR", n).value))} : Commit(w)
  /\ UNCHANGED <<previousDns, servers, given, setCalls, runs, abandoned,
                 block, sent>>

\* reverse rejects the task of IP entity i.
ReverseRejects(i, k, code) ==
  /\ Running(i, k)
  /\ lookups[i].tasks[k] = "PTR"
  /\ \E w \in {Drain(ReverseRejected(World, i, k, RawError(code, Syscall("PTR"))))} : Commit(w)
  /\ UNCHANGED <<previousDns, servers, given, setCalls, runs, abandoned,
                 block, sent>>

\* The closures of the abandoned call, with the resolver as it is now.
AbandonedWorld == [abandoned[1] EXCEPT !.servers = servers]

\* The abandoned call's closures after a step: nothing more happens to them
\* once no resolver call of theirs is outstanding.
Leave(w) ==
  abandoned' = IF \E i \in DOMAIN w.lookups : \E k \in DOMAIN w.lookups[i].state :
                      w.lookups[i].state[k] = "running"
                 THEN Some(w) ELSE Null

\* The resolver answers an outstanding call of the abandoned doLookup call:
\* the same callbacks run, on that call's closures.
AbandonedAnswers(counts, codes) ==
  /\ abandoned # Null
  /\ \E i \in DOMAIN abandoned[1].lookups,
        k \in 1..Cardinality(DomainRecordType) :
       /\ k \in DOMAIN abandoned[1].lookups[i].state
       /\ abandoned[1].lookups[i].state[k] = "running"
       /\ LET type == abandoned[1].lookups[i].tasks[k]
              after ==
                IF type = "PTR"
                  THEN {ReverseResolved(AbandonedWorld, i, k, Response("PTR", n).value) :
                          n \in counts}
                       \cup {ReverseRejected(AbandonedWorld, i, k,
                                             RawError(code, Syscall("PTR"))) :
                               code \in codes}
                  ELSE {ForwardResolved(AbandonedWorld, i, k, Response(type, n)) :
                          n \in counts}
                       \cup {ForwardRejected(AbandonedWorld, i, k,
                                             RawError(code, Syscall(type))) :
                               code \in codes}
          IN \E w \in {Drain(a) : a \in after} : Leave(w)
  /\ UNCHANGED <<previousDns, servers, entities, options, given, lookupResults,
                 each, lookups, outcome, issued, setCalls, runs, message,
                 block, sent>>

-----------------------------------------------------------------------------
(* Inputs *)

Batches(maxLen) ==
  UNION {{[i \in 1..n |-> Entity(i, kinds[i])] : kinds \in [1..n -> EntityKinds]} :
           n \in 0..maxLen}

OptionsOf(dnsChoices, typeChoices, showChoices) ==
  [dns : dnsChoices, privateIpOnly : BOOLEAN, queryTypes : typeChoices,
   resultsToShow : showChoices]

ResultsToShow == {"always", "answerOnly"}

ConfiguredDns == "8.8.8.8"

\* The first call of doLookup after the module was loaded.
FirstLookup(ents, opts) == outcome.kind = "none" /\ DoLookup(ents, opts)

\* The resolver answers an outstanding call: with count records from counts,
\* or with an error whose code is from codes.
Answers(counts, codes) ==
  \/ \E i \in DOMAIN lookups, k \in 1..Cardinality(DomainRecordType), n \in counts :
       QueryResolves(i, k, n)
  \/ \E i \in DOMAIN lookups, k \in 1..Cardinality(DomainRecordType), code \in codes :
       QueryRejects(i, k, code)
  \/ \E i \in DOMAIN lookups, n \in counts : ReverseResolves(i, 1, n)
  \/ \E i \in DOMAIN lookups, code \in codes : ReverseRejects(i, 1, code)

\* The resolver calls a batch makes at most: one per entity and query type.
QueriesOf(ents, opts) ==
  Len(ents) * (IF Len(opts.queryTypes) = 0 THEN 1 ELSE Len(opts.queryTypes))

\* One call of doLookup on a batch of up to MaxEntities entities and up to
\* MaxQueries resolver calls: no or two query types, every result shown, one
\* answer size, one recoverable and one fatal error code.
Next ==
  \/ \E ents \in Batches(MaxEntities),
        opts \in OptionsOf({ConfiguredDns}, {<<>>, <<"A", "MX">>}, {"always"}) :
       QueriesOf(ents, opts) <= MaxQueries /\ FirstLookup(ents, opts)
  \/ Answers({1}, {"ENOTFOUND", "ECONNREFUSED"})

Spec == Init /\ [][Next]_vars

\* One call of doLookup on one entity: answers of 0..MaxResults records and
\* errors of every kind: the three recoverable codes, fatal codes, a code
\* the table lists only with its E prefix, a code it does not list, and an
\* error without code.
ErrorCodes ==
  {"ENODATA", "ENOTFOUND", "EBADRESP", "ECONNREFUSED", "ETIMEOUT", "NOTFOUND",
   "EUNKNOWN", ""}

NextErrors ==
  \/ \E ents \in Batches(1),
        opts \in OptionsOf({ConfiguredDns}, {<<>>, <<"A">>, <<"MX", "A">>}, ResultsToShow) :
       FirstLookup(ents, opts)
  \/ Answers(0..MaxResults, ErrorCodes)

SpecErrors == Init /\ [][NextErrors]_vars

\* One call of doLookup on one entity with six or all seven query types
\* configured, in the order the option lists them.
AllTypes == <<"A", "AAAA", "NS", "MX", "TXT", "SOA", "CNAME">>

NextTypes ==
  \/ \E ents \in Batches(1),
        opts \in OptionsOf({ConfiguredDns}, {AllTypes, Tail(AllTypes)}, ResultsToShow) :
       FirstLookup(ents, opts)
  \/ Answers({1}, {"ENODATA", "ECONNREFUSED"})

SpecTypes == Init /\ [][NextTypes]_vars

\* One call of doLookup on a batch of as many entities as go in flight
\* together, with six query types configured: one more than a domain's tasks
\* that run together.  The resolver answers with a record or a fatal error,
\* and the batch is followed through its first MaxAnswered responses.
RECURSIVE Answered(_, _)
Answered(lks, n) ==
  IF n = 0 THEN 0
  ELSE Cardinality({k \in DOMAIN lks[n].state :
                      lks[n].state[k] \in {"fulfilled", "rejected"}})
       + Answered(lks, n - 1)

NextAbort ==
  \/ \E ents \in Batches(MAX_ENTITIES_AT_A_TIME),
        opts \in OptionsOf({ConfiguredDns}, {Tail(AllTypes)}, {"always"}) :
       FirstLookup(ents, opts)
  \/ /\ Answered(lookups, Len(lookups)) < MaxAnswered
     /\ Answers({1}, {"ECONNREFUSED"})

SpecAbort == Init /\ [][NextAbort]_vars

\* Up to MaxCalls calls of doLookup, one after the other, each on at most one
\* entity, with the DNS Server option blank, at its default or at another
\* address.
OtherDns == "1.1.1.1"

DnsChoices == {"", ConfiguredDns, OtherDns}

NextCalls ==
  \/ \E ents \in Batches(1), opts \in OptionsOf(DnsChoices, {<<"A">>}, {"always"}) :
       Len(runs) < MaxCalls /\ DoLookup(ents, opts)
  \/ Answers({1}, {"ECONNREFUSED"})

SpecCalls == Init /\ [][NextCalls]_vars

\* The resolver calls answered so far, of the current call and of the
\* abandoned one.
AnsweredInAll ==
  Answered(lookups, Len(lookups))
  + (IF abandoned = Null THEN 0
     ELSE Answered(abandoned[1].lookups, Len(abandoned[1].lookups)))

\* A call of doLookup on up to two entities with six query types, and, once
\* it has thrown with resolver calls of its batch outstanding, a second call
\* on one entity with another server configured.  The resolver answers with
\* one record or a fatal error; the calls are followed until MaxAnswered
\* answers have arrived.
NextAbandoned ==
  \/ \E ents \in Batches(MAX_ENTITIES_AT_A_TIME),
        opts \in OptionsOf({ConfiguredDns}, {Tail(AllTypes)}, {"always"}) :
       FirstLookup(ents, opts)
  \/ \E ents \in {<<Entity(1, kind)>> : kind \in {"domain", "publicIP"}},
        opts \in {o \in OptionsOf({OtherDns}, {<<"A">>}, {"always"}) : ~o.privateIpOnly} :
       /\ AnsweredInAll < MaxAnswered
       /\ outcome.kind = "failed"
       /\ ~Quiescent
       /\ DoLookup(ents, opts)
  \/ /\ AnsweredInAll < MaxAnswered
     /\ Answers({1}, {"ECONNREFUSED"})
  \/ /\ AnsweredInAll < MaxAnswered
     /\ AbandonedAnswers({1}, {"ECONNREFUSED"})

SpecAbandoned == Init /\ [][NextAbandoned]_vars

\* One call of onMessage with a payload the details block sends: retryLookup
\* sends RETRY_LOOKUP with the block's entity, toggleAnswerType sends
\* RUN_QUERY with a record type for a domain entity.  The options configure
\* no or two query types.
MessageTypes == {"A", "MX", "SOA"}

Payloads ==
  {[action |-> "RETRY_LOOKUP", entity |-> Entity(1, kind)] : kind \in EntityKinds}
    \cup {[action |-> "RUN_QUERY", type |-> t, entity |-> Entity(1, "domain")] :
            t \in MessageTypes}

FirstMessage(payload, opts) == outcome.kind = "none" /\ OnMessage(payload, opts)

NextMessages ==
  \/ \E payload \in Payloads,
        opts \in OptionsOf({ConfiguredDns}, {<<>>, <<"A", "MX">>}, ResultsToShow) :
       FirstMessage(payload, opts)
  \/ Answers(0..MaxResults, {"ENODATA", "ECONNREFUSED"})

SpecMessages == Init /\ [][NextMessages]_vars

-----------------------------------------------------------------------------
(* The block component (components/block.js) *)

\* initTypes: every type of details.answer.__order that has results is shown.
\* The component keeps __show, __searching and __error on the type's record;
\* here they are the fields of flags[type], and Null is a property not set.
initTypes(details) ==
  [t \in DOMAIN details.answer.rec |->
     [__show |-> IF /\ \E k \in DOMAIN details.answer.__order :
                          details.answer.__order[k] = t
                    /\ Len(details.answer.rec[t].results) > 0
                   THEN Some(TRUE) ELSE Null,
      __searching |-> Null,
      __error |-> Null]]

\* The component is created for one outcome with details of the lookup.
Render(j) ==
  /\ block = Null
  /\ outcome.kind = "returned"
  /\ j \in DOMAIN outcome.results
  /\ outcome.results[j].data.details # Null
  /\ block' = Some([entity |-> outcome.results[j].entity,
                    data |-> outcome.results[j].data,
                    flags |-> initTypes(outcome.results[j].data.details[1])])
  /\ UNCHANGED <<previousDns, servers, entities, options, given, lookupResults,
                 each, lookups, outcome, issued, setCalls, runs, message,
                 abandoned, sent>>

\* The template lists the record types, each with its toggle, unless the
\* details say the domain or the IP was not found.
TogglesShown(b) ==
  /\ ~b.data.details[1].domainNotFound
  /\ ~b.data.details[1].reverseDnsNotFound

\* "if (block.entity.isDomain && !details.answer[type].searched)"
MustRunQuery(b, type) ==
  b.entity.isDomain /\ ~b.data.details[1].answer.rec[type].searched

\* toggleAnswerType(type), up to sendIntegrationMessage: toggleProperty turns
\* a property that is not set into true.
toggleAnswerType(b, type) ==
  LET b1 == [b EXCEPT !.flags[type].__show = Some(@ # Some(TRUE))]
  IN IF MustRunQuery(b, type)
       THEN [b1 EXCEPT !.flags[type].__searching = Some(TRUE),
                       !.flags[type].__error = Some("")]
       ELSE b1

\* The RUN_QUERY messages whose promise has not settled.
InFlight ==
  sent["A"] + sent["AAAA"] + sent["CNAME"] + sent["MX"] + sent["TXT"]
  + sent["NS"] + sent["SOA"]

\* The user clicks the title of a record type.
ToggleAnswerType(type) ==
  /\ block # Null
  /\ type \in DOMAIN block[1].flags
  /\ TogglesShown(block[1])
  /\ MustRunQuery(block[1], type) => InFlight < MaxInFlight
  /\ block' = Some(toggleAnswerType(block[1], type))
  /\ sent' = IF MustRunQuery(block[1], type)
               THEN [sent EXCEPT ![type] = @ + 1]
               ELSE sent
  /\ UNCHANGED <<previousDns, servers, entities, options, given, lookupResults,
                 each, lookups, outcome, issued, setCalls, runs, message,
                 abandoned>>

\* What the promise of sendIntegrationMessage settles with: onMessage runs
\* doLookup on the entity with the one type, the resolver having the servers
\* list, and the type's query is answered with results, or rejected with
\* queryErr when results is Null.
RunQuery(entity, type, opts, list, results, queryErr) ==
  LET payload == [action |-> "RUN_QUERY", type |-> type, entity |-> entity]
      caller == Some([payload |-> payload, options |-> opts, reply |-> Pending])
      w0 == Drain(Replenish(Entered(<<entity>>, onMessageOptions(payload, opts),
                                    list, caller)))
      w1 == Drain(IF results # Null
                    THEN ForwardResolved(w0, 1, 1, results[1])
                    ELSE ForwardRejected(w0, 1, 1, queryErr[1]))
  IN onMessageResumed(w1.message, w1.outcome)[1].reply

\* The .then handler of toggleAnswerType.
Then(b, type, result) ==
  LET b1 == IF result.answer # Null
              THEN [b EXCEPT
                      !.data.details[1].answer.rec[type].results = result.answer[1].results,
                      !.data.details[1].answer.rec[type].elapsedTime =
                         result.answer[1].elapsedTime,
                      !.data.details[1].totalAnswers = @ + Len(result.answer[1].results)]
              ELSE [b EXCEPT !.data.details[1].answer.rec[type].results = <<>>]
  IN [b1 EXCEPT !.data.details[1].answer.rec[type].searched = TRUE]

\* JSON.stringify(err, null, 4)
Stringify(err) == "{ " \o err.detail \o " }"

\* The .catch handler of toggleAnswerType.
Catch(b, type, err) == [b EXCEPT !.flags[type].__error = Some(Stringify(err))]

\* The .finally handler of toggleAnswerType.
Finally(b, type) == [b EXCEPT !.flags[type].__searching = Some(FALSE)]

\* The promise of a RUN_QUERY message for the type settles with reply: the
\* handlers run one after the other in the same turn.
Settles(type, reply) ==
  /\ block' = Some(Finally(IF reply.kind = "returned"
                             THEN Then(block[1], type, reply.value[1])
                             ELSE Catch(block[1], type, reply.error[1]),
                           type))
  /\ sent' = [sent EXCEPT ![type] = @ - 1]
  /\ UNCHANGED <<previousDns, servers, entities, options, given, lookupResults,
                 each, lookups, outcome, issued, setCalls, runs, message,
                 abandoned>>

\* A RUN_QUERY message of the component is served, the resolver answering
\* its query with n records.
RunQueryResolves(type, n) ==
  /\ block # Null
  /\ sent[type] > 0
  /\ Settles(type, RunQuery(block[1].entity, type, given, servers,
                            Some(Response(type, n)), Null))

\* A RUN_QUERY message of the component is served, the resolver rejecting
\* its query with the code.
RunQueryRejects(type, code) ==
  /\ block # Null
  /\ sent[type] > 0
  /\ Settles(type, RunQuery(block[1].entity, type, given, servers,
                            Null, Some(RawError(code, Syscall(type)))))

\* The types whose titles the user clicks.
ClickedTypes == {"MX", "SOA", "PTR"}

\* One call of doLookup on one entity, the component made for its outcome,
\* and the user's clicks, with MaxInFlight RUN_QUERY messages under way at
\* most.  The resolver answers with no or one record, a recoverable or a
\* fatal error.
NextBlock ==
  \/ \E ents \in Batches(1),
        opts \in OptionsOf({ConfiguredDns}, {<<>>, <<"MX">>}, ResultsToShow) :
       FirstLookup(ents, opts)
  \/ Answers(0..1, {"ENODATA", "ECONNREFUSED"})
  \/ \E j \in 1..1 : Render(j)
  \/ \E type \in ClickedTypes : ToggleAnswerType(type)
  \/ \E type \in ClickedTypes \cap DomainRecordType, n \in 0..1 :
       RunQueryResolves(type, n)
  \/ \E type \in ClickedTypes \cap DomainRecordType,
        code \in {"ENODATA", "ECONNREFUSED"} :
       RunQueryRejects(type, code)

SpecBlock == Init /\ [][NextBlock]_vars

-----------------------------------------------------------------------------
(* Properties *)

\* The iteratee of entity i got past the private-IP filter.
Started(i) == lookups[i].phase \notin {"waiting", "ignored"}

Recoverable == {"ENODATA", "ENOTFOUND", "EBADRESP"}

\* A query of entity i has failed with a code that is not recoverable.
FatalSeen(i) ==
  /\ Started(i)
  /\ \E t \in DOMAIN lookups[i].answers.rec :
       LET error == lookups[i].answers.rec[t].error
       IN error # Null /\ error[1].code # "" /\ error[1].code \notin Recoverable

\* Positions of the results that carry entity e.
ResultsFor(results, e) == {j \in DOMAIN results : results[j].entity = e}

Total(f) == f["A"] + f["AAAA"] + f["CNAME"] + f["MX"] + f["TXT"] + f["NS"]
            + f["SOA"] + f["PTR"]

C2_FatalFailsRun ==
  (\E i \in DOMAIN lookups : FatalSeen(i)) =>
    /\ outcome.kind = "failed"
    /\ outcome.error # Null
    /\ outcome.results = <<>>

\* The call failed although one entity had completed before the failure and
\* another one completed after it.
C2_Witness ==
  /\ outcome.kind = "failed"
  /\ Len(lookupResults) = 2
  /\ \E i \in DOMAIN lookups : lookups[i].phase = "threw"

\* C3: a task whose query failed with a code resolves (error recorded,
\* nothing re-raised) exactly when the code is ENODATA, ENOTFOUND or
\* EBADRESP, and rejects with every other code.
C3_RecoverableCodes ==
  \A i \in DOMAIN lookups : \A k \in DOMAIN lookups[i].state :
    LET record == lookups[i].answers.rec[lookups[i].tasks[k]]
    IN (record.error # Null /\ record.error[1].code # "") =>
         /\ lookups[i].state[k] \in {"fulfilled", "rejected"}
         /\ lookups[i].state[k] = "fulfilled"
              <=> record.error[1].code \in {"ENODATA", "ENOTFOUND", "EBADRESP"}

\* A task resolved with EBADRESP recorded, and the entity's outcome is there.
C3_Witness ==
  \E i \in DOMAIN lookups : \E k \in DOMAIN lookups[i].state :
    LET record == lookups[i].answers.rec[lookups[i].tasks[k]]
    IN /\ record.error # Null
       /\ record.error[1].code = "EBADRESP"
       /\ record.error[1].message = "Misformatted DNS reply."
       /\ lookups[i].state[k] = "fulfilled"
       /\ outcome.kind = "returned"

\* C4: a recoverable error stays on its own record: a record is blank until
\* its own query settled, an error on a record is the one of that record's
\* own query, an entity whose tasks all resolved has exactly one outcome,
\* and the call fails only if some query failed with a fatal code.
C4_RecoverableStaysLocal ==
  /\ \A i \in DOMAIN lookups : Started(i) =>
       /\ \A t \in DOMAIN lookups[i].answers.rec :
            LET record == lookups[i].answers.rec[t]
                settled == \E k \in DOMAIN lookups[i].state :
                             /\ lookups[i].tasks[k] = t
                             /\ lookups[i].state[k] \in {"fulfilled", "rejected"}
            IN /\ ~settled => record = BlankResult(entities[i].isIP)
               /\ record.error # Null =>
                    /\ settled
                    /\ record.error[1].syscall = Syscall(t)
                    /\ record.results = <<>>
       /\ (\A k \in DOMAIN lookups[i].state : lookups[i].state[k] = "fulfilled") =>
            /\ lookups[i].phase = "returned"
            /\ Cardinality(ResultsFor(lookupResults, entities[i])) = 1
  /\ outcome.kind = "failed" => \E i \in DOMAIN lookups : FatalSeen(i)

\* A returned call in which one type of an entity carries a recoverable
\* error and a sibling type carries its records.
C4_Witness ==
  /\ outcome.kind = "returned"
  /\ \E j \in DOMAIN outcome.results :
       /\ outcome.results[j].data.details # Null
       /\ LET answer == outcome.results[j].data.details[1].answer
          IN /\ "MX" \in DOMAIN answer.rec
             /\ answer.rec["A"].error # Null
             /\ answer.rec["A"].error[1].code = "ENOTFOUND"
             /\ answer.rec["MX"].error = Null
             /\ Len(answer.rec["MX"].results) = 1

\* C5: the error a failed call delivers carries the table's text for its
\* code; ECONNREFUSED gives "Could not contact DNS servers.".
C5_ClassifiedError ==
  outcome.kind = "failed" =>
    LET error == outcome.error[1]
    IN /\ error.code \in DOMAIN DNS_ERRORS =>
            /\ error.message = DNS_ERRORS[error.code]
            /\ error.detail = DNS_ERRORS[error.code]
       /\ ("E" \o error.code) \in DOMAIN DNS_ERRORS =>
            error.message = DNS_ERRORS["E" \o error.code]
       /\ error.code = "ECONNREFUSED" => error.message = "Could not contact DNS servers."
       /\ error.code = "ETIMEOUT" => error.message = "Timeout while contacting DNS servers."

\* A call failed on ECONNREFUSED.
C5_Witness ==
  /\ outcome.kind = "failed"
  /\ outcome.error[1].code = "ECONNREFUSED"
  /\ outcome.error[1].message = "Could not contact DNS servers."

\* C6: at most MAX_ENTITIES_AT_A_TIME = 2 entities are in flight, and at
\* most as many have resolver calls outstanding.
C6_EntitiesInFlight ==
  /\ Cardinality({i \in DOMAIN lookups : lookups[i].phase = "inflight"}) <= 2
  /\ Cardinality({i \in DOMAIN lookups : Outstanding(i)}) <= 2

\* Two entities are in flight and a third one waits for a slot.
C6_Witness ==
  /\ Cardinality({i \in DOMAIN lookups : lookups[i].phase = "inflight"}) = 2
  /\ \E i \in DOMAIN lookups :
       lookups[i].phase = "waiting" /\ ~IgnoreEntity(entities[i], given)

\* The resolver calls of entity i that have not answered yet.
RunningTasks(i) == {k \in DOMAIN lookups[i].state : lookups[i].state[k] = "running"}
WaitingTasks(i) == {k \in DOMAIN lookups[i].state : lookups[i].state[k] = "waiting"}

\* C7: an entity has at most MAX_TASKS_AT_A_TIME = 5 resolver calls
\* outstanding, and while its lookup is in flight a type waits only when
\* five calls are outstanding.
C7_TasksInFlight ==
  \A i \in DOMAIN lookups :
    /\ Cardinality(RunningTasks(i)) <= 5
    /\ (lookups[i].phase = "inflight" /\ WaitingTasks(i) # {}) =>
         Cardinality(RunningTasks(i)) = 5

\* Seven types configured: two of the first five have answered, the sixth
\* and seventh were started in their place, five calls are outstanding.
C7_Witness ==
  \E i \in DOMAIN lookups :
    /\ Len(lookups[i].tasks) = 7
    /\ lookups[i].phase = "inflight"
    /\ Cardinality(RunningTasks(i)) = 5
    /\ lookups[i].state[7] = "running"

\* C8: with privateIpOnly set, a public IP gets no resolver call and no
\* outcome; domains and private IPs are never ignored: once eachLimit reached
\* them they have a resolver call, and a returned list holds their outcome.
C8_PrivateIpOnly ==
  \A i \in DOMAIN entities :
    LET e == entities[i]
    IN /\ (given.privateIpOnly /\ e.isIP /\ ~e.isPrivateIP) =>
            /\ Total(issued[i]) = 0
            /\ ResultsFor(lookupResults, e) = {}
            /\ ResultsFor(outcome.results, e) = {}
       /\ (e.isDomain \/ e.isPrivateIP) =>
            /\ lookups[i].phase # "ignored"
            /\ lookups[i].phase # "waiting" => Total(issued[i]) >= 1
            /\ outcome.kind = "returned" => ResultsFor(outcome.results, e) # {}

\* With privateIpOnly set, a call returned for a batch of a public IP, a
\* private IP and a domain: two outcomes.
C8_Witness ==
  /\ given.privateIpOnly
  /\ outcome.kind = "returned"
  /\ Len(entities) = 3
  /\ entities[1].isIP /\ ~entities[1].isPrivateIP
  /\ entities[2].isPrivateIP
  /\ entities[3].isDomain
  /\ Len(outcome.results) = 2

\* C9: with queryTypes empty, a domain gets exactly one resolver call, of
\* type A, and in its completed answer searched is true for A only.
C9_DefaultsToA ==
  given.queryTypes = <<>> =>
    \A i \in DOMAIN lookups : (entities[i].isDomain /\ Started(i)) =>
      /\ issued[i] = [t \in RecordTypes |-> IF t = "A" THEN 1 ELSE 0]
      /\ lookups[i].phase = "returned" =>
           /\ \A t \in DomainRecordType :
                lookups[i].answers.rec[t].searched <=> t = "A"
           /\ \A j \in ResultsFor(lookupResults, entities[i]) :
                lookupResults[j].data.details # Null =>
                  \A t \in DomainRecordType :
                    lookupResults[j].data.details[1].answer.rec[t].searched <=> t = "A"

\* Two domains were looked up with queryTypes empty and the call returned.
C9_Witness ==
  /\ given.queryTypes = <<>>
  /\ outcome.kind = "returned"
  /\ \E i, j \in DOMAIN lookups :
       /\ i < j
       /\ entities[i].isDomain /\ lookups[i].phase = "returned"
       /\ entities[j].isDomain /\ lookups[j].phase = "returned"
       /\ lookups[j].answers.rec["A"].searched

\* C10: an IP that is looked up gets exactly one reverse call and no forward
\* query, and from the blank answer on its answer has the one key PTR, order
\* <<PTR>> and PTR.searched true.
C10_ReverseOnly ==
  \A i \in DOMAIN lookups : (entities[i].isIP /\ Started(i)) =>
    /\ issued[i] = [t \in RecordTypes |-> IF t = "PTR" THEN 1 ELSE 0]
    /\ DOMAIN lookups[i].answers.rec = {"PTR"}
    /\ lookups[i].answers.__order = <<"PTR">>
    /\ lookups[i].answers.rec["PTR"].searched

\* An IP's reverse call is outstanding while two query types are configured:
\* the answer is still blank and PTR.searched is already true.
C10_Witness ==
  \E i \in DOMAIN lookups :
    /\ entities[i].isIP
    /\ Len(given.queryTypes) = 2
    /\ lookups[i].phase = "inflight"
    /\ lookups[i].state = <<"running">>
    /\ lookups[i].answers.rec["PTR"] = BlankResult(TRUE)


\* The run before run j that last called dns.setServers, 0 if there is none.
LastSet(j) ==
  LET earlier == {k \in 1..(j - 1) : runs[k].set}
  IN IF earlier = {} THEN 0 ELSE CHOOSE k \in earlier : \A m \in earlier : m <= k

\* C11: a call of doLookup reconfigures the resolver (dns.setServers) only
\* when its server option is not empty and differs from the value applied
\* last; a run whose option equals that of the run before it never
\* reconfigures, so of two or three consecutive runs with one address at most
\* the first does.  Every reconfiguration installs exactly the option.
C11_ReconfiguresOnChange ==
  /\ \A j \in DOMAIN runs :
       /\ runs[j].set =>
            /\ runs[j].dns # ""
            /\ LastSet(j) # 0 => runs[LastSet(j)].dns # runs[j].dns
       /\ (j > 1 /\ runs[j].dns = runs[j - 1].dns) => ~runs[j].set
  /\ setCalls = Cardinality({j \in DOMAIN runs : runs[j].set})
  /\ setCalls > 0 => servers = <<runs[LastSet(Len(runs) + 1)].dns>>
  /\ previousDns = IF setCalls = 0 THEN Null
                   ELSE Some(runs[LastSet(Len(runs) + 1)].dns)

\* Three runs with one non-empty server option: one reconfiguration.
C11_Witness ==
  /\ Len(runs) = 3
  /\ \A j \in 1..3 : runs[j].dns = ConfiguredDns
  /\ setCalls = 1
  /\ runs[1].set
  /\ Quiescent /\ outcome.kind = "returned"

\* C12: whenever doLookup is called with the DNS Server option left blank, its
\* queries go to the host's default DNS server, and the result names that
\* server, whatever the earlier calls in the process were given.
C12_BlankUsesDefault ==
  (Len(runs) > 0 /\ runs[Len(runs)].dns = "") =>
    /\ servers = <<DefaultServer>>
    /\ \A j \in DOMAIN lookupResults :
         lookupResults[j].data.details # Null =>
           lookupResults[j].data.details[1].server = <<DefaultServer>>

\* C13: RETRY_LOOKUP runs doLookup on exactly the payload's entity, and when
\* that lookup returned an outcome for it, the caller of onMessage receives
\* that outcome (summary and details).
C13_RetryReturnsOutcome ==
  (message # Null /\ message[1].payload.action = "RETRY_LOOKUP") =>
    /\ entities = <<message[1].payload.entity>>
    /\ given = message[1].options
    /\ (outcome.kind = "returned" /\ outcome.results # <<>>) =>
         /\ message[1].reply.kind = "returned"
         /\ message[1].reply.value = Some(outcome.results[1])

\* C14: RUN_QUERY runs doLookup on the payload's entity with queryTypes
\* narrowed to the payload's type alone, whatever types the options
\* configure: the one resolver call made is of that type.  The reply's
\* answer is the record result the lookup built for that type, or null when
\* the outcome carries no details (a miss); a failed lookup fails the
\* message with the same error.
C14_RunQueryReply ==
  (message # Null /\ message[1].payload.action = "RUN_QUERY") =>
    LET payload == message[1].payload
        reply == message[1].reply
        miss == given.resultsToShow = "answerOnly" /\ lookups[1].totalAnswers = 0
    IN /\ entities = <<payload.entity>>
       /\ given = [message[1].options EXCEPT !.queryTypes = <<payload.type>>]
       /\ \A t \in RecordTypes : issued[1][t] = IF t = payload.type THEN 1 ELSE 0
       /\ reply.kind = outcome.kind
       /\ reply.kind = "failed" => reply.error = outcome.error
       /\ reply.kind = "returned" =>
            /\ ~Outstanding(1)
            /\ reply.value =
                 Some([answer |-> IF miss THEN Null
                                  ELSE Some(lookups[1].answers.rec[payload.type])])

\* A type the options do not configure was asked for and its record came back.
C14_Witness ==
  /\ message # Null
  /\ message[1].payload.action = "RUN_QUERY"
  /\ message[1].payload.type = "SOA"
  /\ message[1].options.queryTypes = <<"A", "MX">>
  /\ message[1].reply.kind = "returned"
  /\ message[1].reply.value # Null
  /\ message[1].reply.value[1].answer # Null
  /\ Len(message[1].reply.value[1].answer[1].results) = 1
  /\ message[1].reply.value[1].answer[1].searched

\* The records an answers object holds, over all its types.
AnswerCount(answers) ==
  IF "PTR" \in DOMAIN answers.rec
    THEN Len(answers.rec["PTR"].results)
    ELSE Len(answers.rec["A"].results) + Len(answers.rec["AAAA"].results)
         + Len(answers.rec["CNAME"].results) + Len(answers.rec["MX"].results)
         + Len(answers.rec["TXT"].results) + Len(answers.rec["NS"].results)
         + Len(answers.rec["SOA"].results)

\* C15: the outcome of a looked-up entity has empty summary tags and null
\* details when resultsToShow is answerOnly and the entity's queries returned
\* no record at all; in every other case it has details, which count the
\* records returned.
C15_MissOnlyWithoutAnswers ==
  \A j \in DOMAIN lookupResults :
    LET i == lookupResults[j].entity.value
        data == lookupResults[j].data
        total == AnswerCount(lookups[i].answers)
    IN IF options.resultsToShow = "answerOnly" /\ total = 0
         THEN data.summary = <<>> /\ data.details = Null
         ELSE /\ data.details # Null
              /\ data.details[1].totalAnswers = total
              /\ data.details[1].answer = lookups[i].answers
              /\ data.summary # <<>>

\* Under answerOnly a domain whose query ended in a recoverable error is
\* returned as a miss.
C15_Witness ==
  /\ outcome.kind = "returned"
  /\ options.resultsToShow = "answerOnly"
  /\ Len(outcome.results) = 1
  /\ outcome.results[1].data = [summary |-> <<>>, details |-> Null]
  /\ lookups[1].answers.rec["A"].error # Null

\* C16: in every outcome with details, domainNotFound is not set for an IP
\* entity and reverseDnsNotFound is not set for a domain entity, whatever
\* errors the resolver answered with; a flag that is set is backed by its
\* test of the answers.
C16_FlagsGatedByKind ==
  \A j \in DOMAIN lookupResults :
    LET entity == lookupResults[j].entity
        details == lookupResults[j].data.details
    IN details # Null =>
         /\ entity.isIP => ~details[1].domainNotFound
         /\ entity.isDomain => ~details[1].reverseDnsNotFound
         /\ details[1].domainNotFound => isDomainNotFound(details[1].answer)
         /\ details[1].reverseDnsNotFound => isReverseDnsNotFound(details[1].answer)

\* An IP entity whose reverse lookup ended in ENOTFOUND has its outcome.
C16_Witness ==
  \E j \in DOMAIN lookupResults :
    LET entity == lookupResults[j].entity
        details == lookupResults[j].data.details
    IN /\ entity.isIP
       /\ details # Null
       /\ details[1].answer.rec["PTR"].error # Null
       /\ details[1].answer.rec["PTR"].error[1].code = "ENOTFOUND"
       /\ details[1].answer.rec["PTR"].error[1].message = "Domain name not found."
       /\ ~details[1].domainNotFound
       /\ details[1].reverseDnsNotFound

\* C17: of every answers object the lookup builds, at every moment of its
\* construction, isDomainNotFound and isReverseDnsNotFound are not both true.
C17_NotFoundTestsExclusive ==
  \A i \in DOMAIN lookups :
    Started(i) =>
      ~(isDomainNotFound(lookups[i].answers) /\ isReverseDnsNotFound(lookups[i].answers))

\* Each test is true of some answers object: a domain's and an IP's, both
\* with an ENOTFOUND error.
C17_Witness ==
  /\ Len(entities) = 2
  /\ Started(1) /\ Started(2)
  /\ isDomainNotFound(lookups[1].answers)
  /\ isReverseDnsNotFound(lookups[2].answers)
  /\ \A i \in 1..2 : \A t \in DOMAIN lookups[i].answers.rec :
       lookups[i].answers.rec[t].error # Null =>
         lookups[i].answers.rec[t].error[1].code = "ENOTFOUND"

\* C18: for a domain entity shown with resultsToShow always, a queried type
\* that failed with code ENOTFOUND and a syscall other than getHostByAddr
\* has the error message "Domain name not found." on its record as soon as
\* the query failed, and the entity's outcome has details.domainNotFound
\* set and the summary tags <<"Domain not found">>, whatever the other types
\* returned.
C18_DomainNotFound ==
  \A i \in DOMAIN lookups :
    (Started(i) /\ entities[i].isDomain /\ options.resultsToShow = "always") =>
      \A t \in DOMAIN lookups[i].answers.rec :
        LET error == lookups[i].answers.rec[t].error
        IN (error # Null /\ error[1].code = "ENOTFOUND"
            /\ error[1].syscall # "getHostByAddr") =>
             /\ error[1].message = "Domain name not found."
             /\ \A j \in ResultsFor(lookupResults, entities[i]) :
                  /\ lookupResults[j].data.details # Null
                  /\ lookupResults[j].data.details[1].domainNotFound
                  /\ lookupResults[j].data.details[1].answer.rec[t].error = error
                  /\ lookupResults[j].data.summary = <<"Domain not found">>
             /\ (lookups[i].phase = "returned") =>
                  ResultsFor(lookupResults, entities[i]) # {}

\* The A query of a domain failed with ENOTFOUND while its MX query returned
\* records, and the outcome was returned.
C18_Witness ==
  /\ outcome.kind = "returned"
  /\ options.resultsToShow = "always"
  /\ Len(outcome.results) = 1
  /\ outcome.results[1].entity.isDomain
  /\ outcome.results[1].data.summary = <<"Domain not found">>
  /\ outcome.results[1].data.details # Null
  /\ outcome.results[1].data.details[1].domainNotFound
  /\ outcome.results[1].data.details[1].totalAnswers = 2
  /\ outcome.results[1].data.details[1].answer.rec["A"].error # Null
  /\ outcome.results[1].data.details[1].answer.rec["A"].error[1].syscall = "queryA"

\* C19: for an IP entity shown with resultsToShow always whose reverse
\* lookup failed with code ENOTFOUND and syscall getHostByAddr, the call of
\* doLookup does not fail: it returns the entity's outcome with
\* details.reverseDnsNotFound set, details.domainNotFound not set and the
\* summary tags <<"IP not found">>.
C19_IpNotFound ==
  \A i \in DOMAIN lookups :
    LET error == lookups[i].answers.rec["PTR"].error
    IN (/\ Started(i) /\ entities[i].isIP /\ options.resultsToShow = "always"
        /\ error # Null /\ error[1].code = "ENOTFOUND"
        /\ error[1].syscall = "getHostByAddr") =>
         /\ outcome.kind = "returned"
         /\ ResultsFor(outcome.results, entities[i]) # {}
         /\ \A j \in ResultsFor(outcome.results, entities[i]) :
              LET data == outcome.results[j].data
              IN /\ data.details # Null
                 /\ data.details[1].reverseDnsNotFound
                 /\ ~data.details[1].domainNotFound
                 /\ data.details[1].totalAnswers = 0
                 /\ data.summary = <<"IP not found">>

\* The reverse lookup of an IP failed with ENOTFOUND and the call returned.
C19_Witness ==
  /\ outcome.kind = "returned"
  /\ Len(outcome.results) = 1
  /\ outcome.results[1].entity.isIP
  /\ outcome.results[1].data.summary = <<"IP not found">>
  /\ lookups[1].answers.rec["PTR"].error # Null
  /\ lookups[1].answers.rec["PTR"].error[1].code = "ENOTFOUND"
  /\ lookups[1].answers.rec["PTR"].error[1].syscall = "getHostByAddr"

\* The first summary tag for a record type whose first record is value.
FirstTag(type, value) ==
  CASE type \in {"A", "AAAA"} -> type \o " address:" \o value.rtype \o ToString(value.ix)
    [] type = "MX" -> "MX exchange:" \o value.rtype \o ToString(value.ix)
    [] type = "SOA" -> "SOA nsname:" \o value.rtype \o ToString(value.ix)
    [] OTHER -> type \o " " \o value.rtype \o ToString(value.ix)

\* C20: the summary tags of an outcome with details follow a fixed priority:
\* <<"Domain not found">> if domainNotFound; else <<"IP not found">> if
\* reverseDnsNotFound; else, if the A record has a result, the first tag is
\* "A <first A address>", whatever the other types returned; else, if
\* totalAnswers > 0, the first tag names the first type in display order
\* and its first record; else <<"No Answers">>.  In the two answer cases a
\* second tag "+<totalAnswers - 1> answers" is there exactly when
\* totalAnswers > 1, and there is no further tag.
C20_SummaryPriority ==
  \A j \in DOMAIN lookupResults :
    LET data == lookupResults[j].data
        details == data.details[1]
        answer == details.answer
        first == answer.__order[1]
        more == IF details.totalAnswers > 1
                  THEN <<"+" \o ToString(details.totalAnswers - 1) \o " answers">>
                  ELSE <<>>
    IN data.details # Null =>
         data.summary =
           IF details.domainNotFound THEN <<"Domain not found">>
           ELSE IF details.reverseDnsNotFound THEN <<"IP not found">>
           ELSE IF "A" \in DOMAIN answer.rec /\ Len(answer.rec["A"].results) > 0
             THEN <<FirstTag("A", answer.rec["A"].results[1])>> \o more
           ELSE IF details.totalAnswers > 0
             THEN <<FirstTag(first, answer.rec[first].results[1])>> \o more
           ELSE <<"No Answers">>

\* A returned one record and MX two: the A record leads the summary.
C20_Witness ==
  /\ outcome.kind = "returned"
  /\ Len(outcome.results) = 1
  /\ outcome.results[1].entity.isDomain
  /\ outcome.results[1].data.details # Null
  /\ Len(outcome.results[1].data.details[1].answer.rec["A"].results) = 1
  /\ Len(outcome.results[1].data.details[1].answer.rec["MX"].results) = 2
  /\ outcome.results[1].data.details[1].answer.__order[1] = "MX"
  /\ outcome.results[1].data.details[1].totalAnswers = 3
  /\ outcome.results[1].data.summary = <<"A address:A1", "+2 answers">>

\* The position of record type t in the sequence order.
PositionIn(order, t) == CHOOSE k \in DOMAIN order : order[k] = t

\* C21: in every returned outcome the answer's display order is sorted: a
\* type never comes after a type with fewer results; among types with equal
\* result counts no unsearched type precedes a searched one; and types with
\* equal result count and searched flag keep the order of the blank answer
\* (A, AAAA, CNAME, MX, TXT, NS, SOA).
C21_DisplayOrderSorted ==
  outcome.kind = "returned" =>
    \A j \in DOMAIN outcome.results :
      outcome.results[j].data.details # Null =>
        LET answer == outcome.results[j].data.details[1].answer
            blank == getBlankAnswer(outcome.results[j].entity).__order
        IN \A a, b \in DOMAIN answer.__order :
             a < b =>
               LET x == answer.rec[answer.__order[a]]
                   y == answer.rec[answer.__order[b]]
               IN /\ Len(x.results) >= Len(y.results)
                  /\ Len(x.results) = Len(y.results) => (y.searched => x.searched)
                  /\ (Len(x.results) = Len(y.results) /\ x.searched = y.searched) =>
                       PositionIn(blank, answer.__order[a])
                         < PositionIn(blank, answer.__order[b])

\* MX returned two records, A one: MX, then A, then the unsearched types in
\* their initial order.
C21_Witness ==
  /\ outcome.kind = "returned"
  /\ Len(outcome.results) = 1
  /\ outcome.results[1].data.details # Null
  /\ outcome.results[1].data.details[1].answer.__order
       = <<"MX", "A", "AAAA", "CNAME", "TXT", "NS", "SOA">>
  /\ Len(outcome.results[1].data.details[1].answer.rec["MX"].results) = 2
  /\ Len(outcome.results[1].data.details[1].answer.rec["A"].results) = 1

\* The order sequence of answers is a permutation of its record-type keys.
IsPermutationOfKeys(answers) ==
  /\ Len(answers.__order) = Cardinality(DOMAIN answers.rec)
  /\ {answers.__order[k] : k \in DOMAIN answers.__order} = DOMAIN answers.rec

\* C22: in every state of a lookup (blank answer, while queries complete,
\* after sorting, in the outcome pushed and returned) the answer's order
\* sequence is a permutation of the answer's record-type keys.
C22_OrderIsPermutation ==
  /\ \A i \in DOMAIN lookups : Started(i) => IsPermutationOfKeys(lookups[i].answers)
  /\ \A j \in DOMAIN lookupResults :
       lookupResults[j].data.details # Null =>
         IsPermutationOfKeys(lookupResults[j].data.details[1].answer)
  /\ \A j \in DOMAIN outcome.results :
       outcome.results[j].data.details # Null =>
         IsPermutationOfKeys(outcome.results[j].data.details[1].answer)

\* A sorted answer whose order differs from the blank answer's was returned.
C22_Witness ==
  /\ outcome.kind = "returned"
  /\ Len(outcome.results) = 1
  /\ outcome.results[1].data.details # Null
  /\ outcome.results[1].entity.isDomain
  /\ outcome.results[1].data.details[1].answer.__order # DomainOrder
  /\ outcome.results[1].data.details[1].answer.rec["A"].error # Null
  /\ IsPermutationOfKeys(outcome.results[1].data.details[1].answer)

\* The record types a sequence of query types names.
TypeSet(queryTypes) == {queryTypes[k] : k \in DOMAIN queryTypes}

\* C23: for a domain entity and a non-empty configured list of query types,
\* no type is ever queried twice and no type outside the list is queried;
\* when the entity's outcome is there, exactly one query per listed type
\* was issued, searched is true exactly for the listed types, and every
\* other type is as in the blank answer: no results, no error, not searched.
C23_OneQueryPerType ==
  \A i \in DOMAIN lookups :
    (Started(i) /\ entities[i].isDomain /\ given.queryTypes # <<>>) =>
      LET T == TypeSet(given.queryTypes)
      IN /\ \A t \in RecordTypes :
              /\ issued[i][t] <= 1
              /\ t \notin T => issued[i][t] = 0
         /\ \A t \in DomainRecordType \ T :
              lookups[i].answers.rec[t] = BlankResult(FALSE)
         /\ \A j \in ResultsFor(lookupResults, entities[i]) :
              \A t \in DomainRecordType :
                /\ issued[i][t] = IF t \in T THEN 1 ELSE 0
                /\ lookups[i].answers.rec[t].searched <=> t \in T
                /\ lookupResults[j].data.details # Null =>
                     lookupResults[j].data.details[1].answer.rec[t]
                       = lookups[i].answers.rec[t]

\* Six of the seven types are configured and the outcome was returned: A is
\* the one type left unsearched.
C23_Witness ==
  /\ outcome.kind = "returned"
  /\ Len(outcome.results) = 1
  /\ entities[1].isDomain
  /\ TypeSet(given.queryTypes) = DomainRecordType \ {"A"}
  /\ outcome.results[1].data.details # Null
  /\ outcome.results[1].data.details[1].answer.rec["A"] = BlankResult(FALSE)
  /\ \A t \in DomainRecordType \ {"A"} :
       outcome.results[1].data.details[1].answer.rec[t].searched

\* The state of the query task of lookup L for record type t: "none" when
\* the lookup has no task for t.
TaskState(L, t) ==
  IF \E k \in DOMAIN L.tasks : L.tasks[k] = t
    THEN L.state[CHOOSE k \in DOMAIN L.tasks : L.tasks[k] = t]
    ELSE "none"

Settled == {"fulfilled", "rejected"}

\* C24: for a domain entity, the record of a type is blank and unsearched
\* until the type's query completes; the step in which the query completes,
\* with records, with a recoverable or with a fatal error, is the only step
\* that writes the record: it sets searched and the elapsed time together
\* with the results or the error, and afterwards the record, searched
\* included, never changes.
C24_SearchedOnCompletion ==
  /\ [](\A i \in DOMAIN lookups :
          (Started(i) /\ entities[i].isDomain) =>
            \A t \in DomainRecordType :
              LET record == lookups[i].answers.rec[t]
              IN IF TaskState(lookups[i], t) \in Settled
                   THEN /\ record.searched
                        /\ record.elapsedTime # Null
                        /\ TaskState(lookups[i], t) = "rejected" =>
                             record.error # Null /\ isThrowableError(record.error)
                   ELSE record = BlankResult(FALSE))
  /\ [][\A i \in DOMAIN lookups :
          (Started(i) /\ entities[i].isDomain) =>
            \A t \in DomainRecordType :
              /\ lookups[i].answers.rec[t].searched => lookups'[i].answers.rec[t].searched
              /\ lookups'[i].answers.rec[t] # lookups[i].answers.rec[t] =>
                   /\ TaskState(lookups[i], t) = "running"
                   /\ TaskState(lookups'[i], t) \in Settled]_vars

\* A query that failed with a fatal error left its record searched.
C24_Witness ==
  /\ outcome.kind = "failed"
  /\ Len(entities) = 1 /\ entities[1].isDomain
  /\ TaskState(lookups[1], "A") = "rejected"
  /\ lookups[1].answers.rec["A"].searched
  /\ lookups[1].answers.rec["A"].error # Null
  /\ lookups[1].answers.rec["A"].error[1].code = "ECONNREFUSED"
  /\ lookups[1].answers.rec["A"].elapsedTime # Null

\* C25: in every returned outcome with details, totalAnswers is the sum,
\* over the record types of the answer, of the number of results of the
\* type, and a type that has an error has no results; the running counter
\* of a lookup equals that sum of its answers at every moment.
C25_TotalAnswersIsSum ==
  /\ \A i \in DOMAIN lookups :
       Started(i) => lookups[i].totalAnswers = AnswerCount(lookups[i].answers)
  /\ outcome.kind = "returned" =>
       \A j \in DOMAIN outcome.results :
         LET details == outcome.results[j].data.details
         IN details # Null =>
              /\ details[1].totalAnswers = AnswerCount(details[1].answer)
              /\ \A t \in DOMAIN details[1].answer.rec :
                   details[1].answer.rec[t].error # Null =>
                     details[1].answer.rec[t].results = <<>>

\* MX returned two records and A an error: totalAnswers is 2.
C25_Witness ==
  /\ outcome.kind = "returned"
  /\ Len(outcome.results) = 1
  /\ outcome.results[1].entity.isDomain
  /\ outcome.results[1].data.details # Null
  /\ outcome.results[1].data.details[1].totalAnswers = 2
  /\ Len(outcome.results[1].data.details[1].answer.rec["MX"].results) = 2
  /\ outcome.results[1].data.details[1].answer.rec["A"].error # Null

\* error is the classification of the error the resolver call syscall
\* rejected with: the resolver's error has the message "raw <code>" and no
\* detail.
Classified(error, syscall) ==
  /\ error.syscall = syscall
  /\ error.code \in ErrorCodes
  /\ IF error.code # "" /\ error.code \in DOMAIN DNS_ERRORS
       THEN /\ error.message = DNS_ERRORS[error.code]
            /\ error.detail = DNS_ERRORS[error.code]
     ELSE IF error.code # "" /\ ("E" \o error.code) \in DOMAIN DNS_ERRORS
       THEN /\ error.message = DNS_ERRORS["E" \o error.code]
            /\ error.detail = DNS_ERRORS["E" \o error.code]
     ELSE /\ error.message = "raw " \o error.code
          /\ error.detail = ""

\* C26: every classified error, on a record and thrown by doLookup, carries
\* the code and syscall of the resolver's error; when the table lists the
\* code, verbatim or else with an E in front, message and detail are the
\* table's text, and otherwise they are those of the resolver's error.
C26_ErrorClassification ==
  /\ \A i \in DOMAIN lookups :
       Started(i) =>
         \A t \in DOMAIN lookups[i].answers.rec :
           lookups[i].answers.rec[t].error # Null =>
             Classified(lookups[i].answers.rec[t].error[1], Syscall(t))
  /\ outcome.kind = "failed" =>
       \E i \in DOMAIN lookups : \E t \in DOMAIN lookups[i].answers.rec :
         /\ Classified(outcome.error[1], Syscall(t))
         /\ lookups[i].answers.rec[t].error = outcome.error

\* An error whose code the table lists only with an E in front was
\* classified, on its record and as the error doLookup threw.
C26_Witness ==
  /\ outcome.kind = "failed"
  /\ outcome.error[1].code = "NOTFOUND"
  /\ outcome.error[1].message = "Domain name not found."
  /\ outcome.error[1].detail = "Domain name not found."
  /\ \E t \in DOMAIN lookups[1].answers.rec :
       lookups[1].answers.rec[t].error = outcome.error

\* The record a query for type t leaves, as a function of the resolver's
\* response alone: record shows which response it was (how many records, or
\* which error code).
ExpectedRecord(t, record) ==
  IF record.error # Null
    THEN [results |-> <<>>,
          error |-> Some(enrichDnsError(RawError(record.error[1].code, Syscall(t)))),
          searched |-> TRUE, elapsedTime |-> Elapsed]
    ELSE [results |-> [k \in 1..Len(record.results) |-> Record(t, k)],
          error |-> Null, searched |-> TRUE, elapsedTime |-> Elapsed]

\* The outcome of an entity as a function of the entity, the options and the
\* response to each of its queries: the blank answer with the queried types
\* filled in, sorted once.
ExpectedOutcome(entity, opts, answers) ==
  LET T == IF entity.isIP THEN {"PTR"} ELSE TypeSet(opts.queryTypes)
      blank == getBlankAnswer(entity)
      filled == [blank EXCEPT !.rec = [t \in DOMAIN blank.rec |->
                                         IF t \in T THEN ExpectedRecord(t, answers.rec[t])
                                                    ELSE blank.rec[t]]]
      sorted == sortAnswers(filled)
  IN LookupResult(entity, sorted, AnswerCount(sorted), opts, servers)

\* C27: the returned outcome of an entity (results and errors per type,
\* display order, totalAnswers, not-found flags, summary tags) is a function
\* of the entity, the options and the resolver's response to each query: it
\* is the same in whatever order the entity's queries completed.
C27_OutcomeIgnoresCompletionOrder ==
  outcome.kind = "returned" =>
    \A j \in DOMAIN outcome.results :
      LET entity == outcome.results[j].entity
      IN outcome.results[j]
           = ExpectedOutcome(entity, options, lookups[entity.value].answers)

\* Two queries of one entity, MX listed before A, both answered with one
\* record: the state is reached with A answering first and with MX
\* answering first, and the outcome lists A before MX.
C27_Witness ==
  /\ outcome.kind = "returned"
  /\ Len(outcome.results) = 1
  /\ given.queryTypes = <<"MX", "A">>
  /\ outcome.results[1].entity.isDomain
  /\ outcome.results[1].data.details # Null
  /\ Len(outcome.results[1].data.details[1].answer.rec["A"].results) = 1
  /\ Len(outcome.results[1].data.details[1].answer.rec["MX"].results) = 1
  /\ SubSeq(outcome.results[1].data.details[1].answer.__order, 1, 2) = <<"A", "MX">>

\* The resolver calls entity i of a batch has yet to see answered: those of
\* its tasks that wait or run, and for an entity eachLimit has not reached
\* the most tasks its iteratee can build.
UnansweredOf(ents, opts, lks, i) ==
  IF lks[i].phase = "waiting"
    THEN IF ents[i].isIP \/ Len(opts.queryTypes) = 0 THEN 1 ELSE Len(opts.queryTypes)
    ELSE Cardinality({k \in DOMAIN lks[i].state : lks[i].state[k] \in {"waiting", "running"}})

RECURSIVE Unanswered(_, _, _, _)
Unanswered(ents, opts, lks, n) ==
  IF n = 0 THEN 0
  ELSE UnansweredOf(ents, opts, lks, n) + Unanswered(ents, opts, lks, n - 1)

\* C28: an entity has its outcome only when none of its resolver calls is
\* outstanding, and doLookup has returned only when no resolver call is
\* outstanding at all: while a call is outstanding and no query has failed
\* with a fatal error, doLookup stays pending.  A pending doLookup waits for
\* the resolver and for nothing else: some resolver call is outstanding, and
\* every answer lowers the number of calls still to be answered, so that
\* with a resolver that answers every call doLookup returns or fails after
\* finitely many answers.
C28_RunWaitsForQueries ==
  /\ [](\A i \in DOMAIN lookups :
          ResultsFor(lookupResults, entities[i]) # {} => ~Outstanding(i))
  /\ [](outcome.kind = "returned" => \A i \in DOMAIN lookups : ~Outstanding(i))
  /\ []((/\ \E i \in DOMAIN lookups : Outstanding(i)
         /\ \A i \in DOMAIN lookups : ~FatalSeen(i)) => outcome.kind = "pending")
  /\ [](outcome.kind = "pending" => \E i \in DOMAIN lookups : Outstanding(i))
  /\ [][outcome.kind = "pending" =>
          /\ outcome'.kind \in {"pending", "returned", "failed"}
          /\ Unanswered(entities', options', lookups', Len(entities'))
               < Unanswered(entities, options, lookups, Len(entities))]_vars

\* One entity of two has its outcome, the other still waits for the
\* resolver, and doLookup is pending.
C28_Witness ==
  /\ outcome.kind = "pending"
  /\ Len(entities) = 2
  /\ ResultsFor(lookupResults, entities[1]) # {}
  /\ Outstanding(2)

\* C29: once a query of a batch has failed with a fatal error, no further
\* resolver call is made for the batch: none for the entity that failed, none
\* for another entity in flight, none for an entity not yet started.
C29_NoQueryAfterFatal ==
  [][(\E i \in DOMAIN lookups : FatalSeen(i)) => issued' = issued]_vars

\* C30: a query is issued while the resolver is configured with the server
\* option of the doLookup call it belongs to, when that option is not empty,
\* and previousDns is the address last passed to dns.setServers.
C30_QueriesUseOwnServer ==
  /\ [](previousDns # Null => servers = <<previousDns[1]>>)
  /\ [][(issued' # issued /\ options'.dns # "") => servers' = <<options'.dns>>]_vars
  /\ [][(/\ abandoned # Null
         /\ abandoned' # Null
         /\ abandoned'[1].issued # abandoned[1].issued
         /\ abandoned[1].options.dns # "")
        => servers = <<abandoned[1].options.dns>>]_vars

\* C31: a call of doLookup leaves the options object it was given unchanged:
\* once the call has returned or thrown, the object holds what the caller
\* put in it, queryTypes included.
C31_OptionsUnchanged ==
  outcome.kind \in {"returned", "failed"} => options = given

\* C32: in every outcome with details the call returns, the summary tags
\* agree with the not-found flags of the details: the summary is
\* <<"Domain not found">> only if details.domainNotFound is set, and
\* <<"IP not found">> only if details.reverseDnsNotFound is set.
C32_SummaryAgreesWithFlags ==
  \A j \in DOMAIN outcome.results :
    LET data == outcome.results[j].data
    IN data.details # Null =>
         /\ data.summary = <<"Domain not found">> => data.details[1].domainNotFound
         /\ data.summary = <<"IP not found">> => data.details[1].reverseDnsNotFound

\* A call returned the outcomes of a domain and of an IP that were both not
\* found, each with its tag and its flag.
C32_Witness ==
  /\ outcome.kind = "returned"
  /\ \E j \in DOMAIN outcome.results :
       LET data == outcome.results[j].data
       IN /\ outcome.results[j].entity.isDomain
          /\ data.details # Null
          /\ data.summary = <<"Domain not found">>
          /\ data.details[1].domainNotFound
          /\ ~data.details[1].reverseDnsNotFound
  /\ \E j \in DOMAIN outcome.results :
       LET data == outcome.results[j].data
       IN /\ outcome.results[j].entity.isIP
          /\ data.details # Null
          /\ data.summary = <<"IP not found">>
          /\ data.details[1].reverseDnsNotFound
          /\ ~data.details[1].domainNotFound

\* The sum of the result counts of all types of the answer.
RECURSIVE SumOfResults(_, _)
SumOfResults(answer, types) ==
  IF types = {} THEN 0
  ELSE LET t == CHOOSE x \in types : TRUE
       IN Len(answer.rec[t].results) + SumOfResults(answer, types \ {t})

\* C33: in the component of a domain entity, after any sequence of
\* toggleAnswerType actions and RUN_QUERY responses, details.totalAnswers is
\* the sum of the result counts of all types of the displayed answer; a
\* RUN_QUERY response that records an error leaves its type's searched flag
\* as it was, and a type is not marked as searching once none of its
\* messages is under way.
C33_TotalAnswersIsSum ==
  /\ [](block # Null /\ block[1].entity.isDomain =>
          LET details == block[1].data.details[1]
          IN /\ details.totalAnswers =
                  SumOfResults(details.answer, DOMAIN details.answer.rec)
             /\ \A t \in DOMAIN details.answer.rec :
                  sent[t] = 0 => block[1].flags[t].__searching # Some(TRUE))
  /\ [][\A t \in DomainRecordType :
          (/\ block # Null
           /\ sent'[t] < sent[t]
           /\ block'[1].flags[t].__error # block[1].flags[t].__error)
          => block'[1].data.details[1].answer.rec[t].searched
               = block[1].data.details[1].answer.rec[t].searched]_vars

=============================================================================
